---- MODULE Spec2Model ----
(***************************************************************************)
(* ChatService (src/src/chat/chat.service.ts, lines 258-564) and its       *)
(* controller (src/unnamed/part_010): lazy initialization of the vector    *)
(* store with the Qdrant probe loop and the in-memory fallback, the ingest *)
(* pipeline and the RAG query pipeline.                                    *)
(*                                                                         *)
(* Every call of init / ingest / query is a process.  A step of a process  *)
(* is the code that runs between two I/O waits of the Node event loop      *)
(* (fetch, timer, file read, embedding request, generation request):       *)
(* awaits that are resolved by microtasks only (ensureInit returning at    *)
(* once, splitDocuments, createStuffDocumentsChain) do not let another     *)
(* call run and are part of the surrounding step.                          *)
(***************************************************************************)
EXTENDS Integers, Sequences, FiniteSets, TLC

\* ---------------------------------------------------------------- bounds
NumCalls == 2
MaxDocs == 1
MaxPdfs == 1
MaxChunks == 1
MaxPrior == 1
MaxContext == 13
MaxRepeats == 2
MaxText == 5
MaxFields == 2
MaxPages == 2
MaxUnderscores == 21
MaxWords == 3
MaxInline == 2
MaxSends == 2

\* ------------------------------------------------------ program constants
maxAttempts == 5
DefaultRetrievalK == 8
MaxSources == 10
BlankUnderscores == 20
chunkSizeTwice == 2 * 1000
chunkSize == 1000
chunkOverlap == 150

\* ---------------------------------------------------------------- values
\* undefined / null of the source; a string is a sequence of characters, and
\* " " stands for any whitespace character
NoValue == <<"undefined">>

QdrantUrls == {NoValue, <<>>, <<" ">>, <<"a">>}

Questions == {NoValue, <<>>, <<" ">>, <<"a">>}

\* an unset number
NoNumber == -1

RetrievalKs == {NoNumber, 1}

CallIds == 1..NumCalls

NoStore == [kind |-> "null", id |-> 0]

QdrantStore == [kind |-> "qdrant", id |-> 0]

MemoryStore(c) == [kind |-> "memory", id |-> c]

\* ------------------------------------------------------------- variables
VARIABLES
  qdrantUrl,          \* configService.get('QDRANT_URL')
  retrievalKCfg,      \* configService.get('RAG_RETRIEVAL_K')
  clientBuilds,       \* new QdrantVectorStore(...) with this configuration does not throw
  llm,                \* this.llm is set
  embeddings,         \* this.embeddings is set
  vectorStore,        \* this.vectorStore: NoStore, a MemoryVectorStore, a QdrantVectorStore
  vectorStoreKind,    \* this.vectorStoreKind
  ragQueriesTotal,
  ragQueriesSuccess,
  memStores,          \* memoryVectors of every MemoryVectorStore object, by creating call
  collection,         \* the records of the Qdrant collection
  started,            \* number of calls started so far
  calls,              \* the calls: position, inputs, locals, result
  wfq,                \* one invocation of waitForQdrant taken alone: its locals
  wfqResponses,       \* and the responses its probes got, in order
  attr,               \* the source attribution of query taken alone: input, output
  pdf,                \* loadPdfAsDocuments taken alone: the file, the documents
  clean,              \* cleanExtractedText taken alone: the text, the outputs
  chunker,            \* the splitter of ingest taken alone: the document, the chunks
  inline,             \* the inline documents of ingest taken alone: body.docs, textDocs
  ui                  \* ChatInterface: its state, the request in flight

svcVars == <<qdrantUrl, retrievalKCfg, clientBuilds, llm, embeddings, vectorStore, vectorStoreKind,
             ragQueriesTotal, ragQueriesSuccess, memStores, collection, started, calls>>

wfqVars == <<wfq, wfqResponses>>

fnVars == <<attr, pdf, clean, chunker, inline, ui>>

vars == <<svcVars, wfqVars, fnVars>>

\* ------------------------------------------------------- pure functions
Min(a, b) == IF a < b THEN a ELSE b

RECURSIVE TrimStart(_)
\* String.prototype.trim, leading part
TrimStart(s) ==
  IF s = <<>> THEN <<>>
  ELSE IF Head(s) = " " THEN TrimStart(Tail(s)) ELSE s

RECURSIVE TrimEnd(_)
\* String.prototype.trim, trailing part
TrimEnd(s) ==
  IF s = <<>> THEN <<>>
  ELSE IF s[Len(s)] = " " THEN TrimEnd(SubSeq(s, 1, Len(s) - 1)) ELSE s

Trim(s) == TrimEnd(TrimStart(s))

\* truthiness of a string-or-undefined value
Truthy(s) == s /= NoValue /\ s /= <<>>

\* x?.trim()
OptTrim(s) == IF s = NoValue THEN NoValue ELSE Trim(s)

ConfiguredNoTrim(url) == Truthy(url)

\* init: if (qdrantUrl?.trim())
Configured(url) == Truthy(OptTrim(url))

\* ChatController.ask: body?.question || ''
AskQuestion(q) == IF Truthy(q) THEN q ELSE <<>>

IsBlankNoTrim(q) == ~Truthy(q)

\* query: if (!question?.trim())
IsBlank(q) == ~Truthy(OptTrim(q))

\* query: configService.get('RAG_RETRIEVAL_K') ?? 8
RetrievalK == IF retrievalKCfg = NoNumber THEN DefaultRetrievalK ELSE retrievalKCfg

\* the records a store object holds
Contents(vs) ==
  IF vs.kind = "memory" THEN memStores[vs.id]
  ELSE IF vs.kind = "qdrant" THEN collection
  ELSE <<>>

\* --------------------------------------------------------- waitForQdrant
\* what a probe can get: an OK response, another response, a network error, the
\* 3 s timeout
ProbeOutcomes == {"ok", "notok", "throw", "timeout"}

\* waitForQdrant: if (attempt < maxAttempts) { ...; await setTimeout }
ShouldWait(attempt) == attempt < maxAttempts

LoopContinuesOneMore(attempt) == attempt <= maxAttempts

\* waitForQdrant: attempt++ and the loop condition attempt <= maxAttempts
LoopContinues(attempt) == attempt + 1 <= maxAttempts

\* waitForQdrant: try { res = await fetch; if (res.ok) return true } catch {}
ProbeReady(outcome) == outcome = "ok"

\* no invocation of waitForQdrant
NoLoop == [attempt |-> 0, ret |-> "none", probes |-> 0, waits |-> 0]

\* waitForQdrant is entered: attempt = 1, nothing returned yet
LoopStart == [attempt |-> 1, ret |-> "pending", probes |-> 0, waits |-> 0]

\* waitForQdrant, lines 345-361: one iteration of the loop with the given
\* response of the probe; ret is the value returned, if the loop ends here
LoopStep(l, outcome) ==
  LET probed == [l EXCEPT !.probes = @ + 1]
      waited == [probed EXCEPT !.waits = IF ShouldWait(l.attempt) THEN @ + 1 ELSE @]
  IN
  IF ProbeReady(outcome) THEN [probed EXCEPT !.ret = "true"]
  ELSE IF LoopContinues(l.attempt) THEN [waited EXCEPT !.attempt = @ + 1]
  ELSE [waited EXCEPT !.ret = "false"]

\* ---------------------------------------------------------------- results
NoResult == [type |-> "none", success |-> FALSE, answer |-> "", sources |-> <<>>,
             contextCount |-> -1, chunksAdded |-> -1, documentsProcessed |-> -1,
             pdfsProcessed |-> -1, note |-> ""]

\* init returns nothing
InitDone == [NoResult EXCEPT !.type = "init"]

\* a rejected promise (an error propagated to the caller)
Thrown == [NoResult EXCEPT !.type = "error"]

\* query, lines 453-458
ValidationResult == [NoResult EXCEPT !.type = "validation", !.success = FALSE,
                                     !.answer = "", !.sources = <<>>]

\* ingest, lines 393-397
EmptyIngestResult == [NoResult EXCEPT !.type = "empty", !.success = FALSE,
                                      !.chunksAdded = 0]

NoContextResultAsAnswer(kind) ==
  [NoResult EXCEPT !.type = "nocontext", !.success = TRUE, !.answer = "guidance",
                   !.sources = <<>>, !.contextCount = 0,
                   !.note = IF kind = "memory" THEN "in-memory" ELSE "qdrant"]

\* query, lines 513-523
NoContextResult(kind) ==
  [NoResult EXCEPT !.type = "nocontext", !.success = FALSE, !.answer = "guidance",
                   !.sources = <<>>, !.contextCount = 0,
                   !.note = IF kind = "memory" THEN "in-memory" ELSE "qdrant"]

\* AppLogger.write: the record of an event of ingest or query; success is
\* "true", "false", or "absent" when the data has no such key
Event(level, message, storage, success) ==
  [level |-> level, message |-> message, storage |-> storage, success |-> success]

\* ---------------------------------------------- functions taken alone
\* no input given yet
NoAttr == [pc |-> "idle", context |-> <<>>, sources |-> <<>>]

NoPdf == [pc |-> "idle", file |-> <<>>, blank |-> FALSE, docs |-> <<>>]

NoClean == [pc |-> "idle", text |-> <<>>, out |-> <<>>, again |-> <<>>]

NoChunker == [pc |-> "idle", doc |-> <<>>, chunks |-> <<>>]

NoInline == [pc |-> "idle", docs |-> <<>>, textDocs |-> <<>>]

\* ChatInterface when it is mounted: messages, input, loading are its state
\* (the useState values), rInput and rLoading the values the handlers of the
\* last render hold, requests the calls of askQuestion that are awaited,
\* sends the number of sends accepted
NoUi == [messages |-> <<>>, input |-> <<>>, loading |-> FALSE,
         rInput |-> <<>>, rLoading |-> FALSE, requests |-> <<>>, sends |-> 0]

\* ------------------------------------------------------------------ calls
\* op, pc: the operation and where it stands; question, docs, pdfs: its
\* input, filled in when the code first reads it; loop, loaded, splitDocs,
\* target, context: its locals; the rest is the record of what it did:
\* ranInit (it ran the body of init), initLog (the log record its init wrote),
\* probed (it sent a probe), probeOk (waitForQdrant returned true), reads, embeds, gens (file reads, embedding
\* requests, generation requests it made), retrieved (the number of records
\* its retrieval returned, -1 before), searched (the number of records the
\* store it searched held then, -1 before), ingestedAtStart (for a query: some
\* ingest had succeeded when it was called), usedKind (the kind of the store
\* object it added to or searched), events (the records it wrote with appLog
\* after ensureInit)
IdleCall ==
  [op |-> "none", pc |-> "idle", question |-> NoValue, docs |-> 0, pdfs |-> 0,
   loop |-> NoLoop, loaded |-> 0, splitDocs |-> <<>>, target |-> NoStore,
   context |-> <<>>,
   ranInit |-> FALSE, initLog |-> "none", ingestedAtStart |-> FALSE,
   probed |-> FALSE, probeOk |-> FALSE, reads |-> 0, embeds |-> 0, gens |-> 0,
   retrieved |-> -1, searched |-> -1, usedKind |-> "none", events |-> <<>>,
   result |-> NoResult]

\* a call that has returned: its locals are gone, its inputs, its result and
\* the record of what it did remain
Return(call, result) ==
  [call EXCEPT !.pc = "done", !.result = result, !.loop = NoLoop, !.loaded = 0,
               !.splitDocs = <<>>, !.target = NoStore, !.context = <<>>]

\* some ingest call has succeeded, in this process or, for the records a
\* persistent collection already holds, in an earlier one
SomeIngestSucceeded ==
  \/ \E c \in CallIds : calls[c].op = "ingest" /\ calls[c].result.type = "success"
  \/ \E i \in 1..Len(collection) : collection[i].by = 0

Init ==
  /\ qdrantUrl \in QdrantUrls
  /\ retrievalKCfg \in RetrievalKs
  /\ clientBuilds \in IF Configured(qdrantUrl) THEN BOOLEAN ELSE {TRUE}
  /\ llm = FALSE
  /\ embeddings = FALSE
  /\ vectorStore = NoStore
  /\ vectorStoreKind = "memory"
  /\ ragQueriesTotal = 0
  /\ ragQueriesSuccess = 0
  /\ memStores = [c \in CallIds |-> <<>>]
  /\ \E n \in 0..MaxPrior :
       collection = [i \in 1..n |-> [by |-> 0, src |-> "pdf"]]
  /\ started = 0
  /\ calls = [c \in CallIds |-> IdleCall]
  /\ wfq = NoLoop
  /\ wfqResponses = <<>>
  /\ attr = NoAttr
  /\ pdf = NoPdf
  /\ clean = NoClean
  /\ chunker = NoChunker
  /\ inline = NoInline
  /\ ui = NoUi

\* ------------------------------------------------------ ingest, the body
Repeat(x, n) == [i \in 1..n |-> x]

NoDocumentsNever(n) == FALSE

\* ingest: if (allDocs.length === 0)
NoDocuments(n) == n = 0

IngestResultInlineOnly(call) ==
  [NoResult EXCEPT !.type = "success", !.success = TRUE,
                   !.chunksAdded = Len(call.splitDocs),
                   !.documentsProcessed = call.docs,
                   !.pdfsProcessed = call.pdfs]

\* ingest, lines 415-421
IngestResult(call) ==
  [NoResult EXCEPT !.type = "success", !.success = TRUE,
                   !.chunksAdded = Len(call.splitDocs),
                   !.documentsProcessed = call.docs + call.loaded,
                   !.pdfsProcessed = call.pdfs]

\* the chunks the splitter can make of the documents of a call: at most
\* MaxChunks of each, none of an empty one, each with its document's source
Splits(call) ==
  {Repeat("inline", ni) \o Repeat("pdf", np) :
     ni \in 0..(call.docs * MaxChunks), np \in 0..(call.loaded * MaxChunks)}

\* ingest, lines 391-407: after the last file is read, up to the call of
\* this.vectorStore.addDocuments on the store of that moment
IngestAfterLoad(call, vs) ==
  IF NoDocuments(call.docs + call.loaded)
  THEN {Return(call, EmptyIngestResult)}
  ELSE {[call EXCEPT !.pc = "add", !.target = vs, !.splitDocs = sp] : sp \in Splits(call)}

\* ingest, lines 377-389: from the return of ensureInit to the first file read
IngestEnter(call, vs) ==
  UNION {IF p > 0 THEN {[call EXCEPT !.docs = d, !.pdfs = p, !.pc = "load"]}
         ELSE IngestAfterLoad([call EXCEPT !.docs = d, !.pdfs = p], vs) :
         d \in 0..MaxDocs, p \in 0..MaxPdfs}

\* ------------------------------------------------------- query, the body
\* query, lines 450-499: validation, then the retriever over the store of
\* that moment
QueryValidate(call, vs) ==
  IF IsBlank(AskQuestion(call.question))
  THEN Return(call, ValidationResult)
  ELSE [call EXCEPT !.pc = "retrieve", !.target = vs]

\* ChatController.ask and query up to the retrieval
QueryEnter(call, vs) ==
  {QueryValidate([call EXCEPT !.question = q], vs) : q \in Questions}

\* what the caller of ensureInit (or of init) can do when it returns: the set
\* of its next positions, one for each input it may have been called with
Enter(call, vs) ==
  IF call.op = "init" THEN {Return(call, InitDone)}
  ELSE IF call.op = "ingest" THEN IngestEnter(call, vs)
  ELSE QueryEnter(call, vs)

\* -------------------------------------------------------- initialization
\* the end of init: the store is assigned, waitForQdrant's locals are gone,
\* and the caller goes on
SetStore(c, call, vs, kind) ==
  /\ vectorStore' = vs
  /\ vectorStoreKind' = kind
  /\ \E next \in Enter([call EXCEPT !.loop = NoLoop], vs) :
       calls' = [calls EXCEPT ![c] = next]

useMemoryFallbackRethrows(c, call, reason) ==
  /\ calls' = [calls EXCEPT ![c] = Return([call EXCEPT !.initLog = reason], Thrown)]
  /\ UNCHANGED <<vectorStore, vectorStoreKind>>

\* useMemoryFallback, lines 364-372
useMemoryFallback(c, call, reason) ==
  SetStore(c, [call EXCEPT !.initLog = reason], MemoryStore(c), "memory")

\* init, lines 277-307: the clients, the configuration, and either the memory
\* store at once or the first probe of waitForQdrant
RunInit(c, call) ==
  /\ llm' = TRUE
  /\ embeddings' = TRUE
  /\ IF Configured(qdrantUrl)
     THEN /\ calls' = [calls EXCEPT ![c] = [call EXCEPT !.ranInit = TRUE, !.pc = "probe",
                                                        !.loop = LoopStart]]
          /\ UNCHANGED <<vectorStore, vectorStoreKind>>
     ELSE SetStore(c, [call EXCEPT !.ranInit = TRUE, !.initLog = "memory"],
                   MemoryStore(c), "memory")

ensureInitSkips(c, call) ==
  /\ \E next \in Enter(call, vectorStore) : calls' = [calls EXCEPT ![c] = next]
  /\ UNCHANGED <<llm, embeddings, vectorStore, vectorStoreKind>>

\* ensureInit, lines 272-275
ensureInit(c, call) ==
  IF vectorStore /= NoStore
  THEN /\ \E next \in Enter(call, vectorStore) : calls' = [calls EXCEPT ![c] = next]
       /\ UNCHANGED <<llm, embeddings, vectorStore, vectorStoreKind>>
  ELSE RunInit(c, call)

NewCall(op) ==
  [IdleCall EXCEPT !.op = op, !.ingestedAtStart = (op = "query" /\ SomeIngestSucceeded)]

\* calls are numbered in the order they start
CanStart(c) == c = started + 1 /\ calls[c].pc = "idle"

\* ChatController.onModuleInit: init() when the module is set up
StartInit(c) ==
  /\ CanStart(c)
  /\ started = 0
  /\ started' = started + 1
  /\ RunInit(c, NewCall("init"))
  /\ UNCHANGED <<qdrantUrl, retrievalKCfg, clientBuilds, ragQueriesTotal, ragQueriesSuccess,
                 memStores, collection, wfqVars, fnVars>>

\* ChatController.ingest -> ChatService.ingest, line 375
StartIngest(c) ==
  /\ CanStart(c)
  /\ started' = started + 1
  /\ ensureInit(c, NewCall("ingest"))
  /\ UNCHANGED <<qdrantUrl, retrievalKCfg, clientBuilds, ragQueriesTotal, ragQueriesSuccess,
                 memStores, collection, wfqVars, fnVars>>

\* ChatController.ask -> ChatService.query, line 448
StartQuery(c) ==
  /\ CanStart(c)
  /\ started' = started + 1
  /\ ensureInit(c, NewCall("query"))
  /\ UNCHANGED <<qdrantUrl, retrievalKCfg, clientBuilds, ragQueriesTotal, ragQueriesSuccess,
                 memStores, collection, wfqVars, fnVars>>

\* init, lines 307-331, inside a call: one iteration of waitForQdrant, and
\* when it returns the store selection and the caller's next step
ProbeAttempt(c) ==
  /\ calls[c].pc = "probe"
  /\ \E outcome \in ProbeOutcomes :
       LET l == LoopStep(calls[c].loop, outcome)
           call == [calls[c] EXCEPT !.loop = l, !.probed = TRUE,
                                    !.probeOk = (l.ret = "true")]
       IN
       IF l.ret = "pending"
       THEN /\ calls' = [calls EXCEPT ![c] = call]
            /\ UNCHANGED <<vectorStore, vectorStoreKind>>
       ELSE IF l.ret = "true"
       THEN IF clientBuilds
            THEN SetStore(c, [call EXCEPT !.initLog = "qdrant"], QdrantStore, "qdrant")
            ELSE useMemoryFallback(c, call, "client_failed")
       ELSE useMemoryFallback(c, call, "probe_failed")
  /\ UNCHANGED <<qdrantUrl, retrievalKCfg, clientBuilds, llm, embeddings, ragQueriesTotal,
                 ragQueriesSuccess, memStores, collection, started, wfqVars, fnVars>>

\* ingest, lines 386-389: one file read, and lines 391-407 after the last one
LoadPdf(c) ==
  /\ calls[c].pc = "load"
  /\ \E outcome \in {"ok", "fail"} :
       LET call == [calls[c] EXCEPT !.reads = @ + 1] IN
       IF outcome = "fail"
       THEN calls' = [calls EXCEPT ![c] = Return(call, Thrown)]
       ELSE IF call.loaded + 1 < call.pdfs
       THEN calls' = [calls EXCEPT ![c] = [call EXCEPT !.loaded = @ + 1]]
       ELSE \E next \in IngestAfterLoad([call EXCEPT !.loaded = @ + 1], vectorStore) :
              calls' = [calls EXCEPT ![c] = next]
  /\ UNCHANGED <<qdrantUrl, retrievalKCfg, clientBuilds, llm, embeddings, vectorStore, vectorStoreKind,
                 ragQueriesTotal, ragQueriesSuccess, memStores, collection, started,
                 wfqVars, fnVars>>

AddedDespiteFailure(recs, outcome) == recs

\* ingest, line 407: what addDocuments leaves in the store: the whole batch,
\* or nothing when the embedding or the add to the store is rejected (the
\* batch is embedded first and then added in one request)
Added(recs, outcome) == IF outcome = "fail" THEN <<>> ELSE recs

\* ingest, lines 407-421: addDocuments (embedding, then the add to the store
\* object the call was made on), the log record and the result
AddDocuments(c) ==
  /\ calls[c].pc = "add"
  /\ \E outcome \in {"ok", "fail"} :
       LET call == [calls[c] EXCEPT !.embeds = @ + 1, !.usedKind = calls[c].target.kind]
           logged == [call EXCEPT !.events = Append(@,
                        Event("log", "Ingest complete", vectorStoreKind, "absent"))]
           recs == [i \in 1..Len(call.splitDocs) |-> [by |-> c, src |-> call.splitDocs[i]]]
       IN
       /\ calls' = [calls EXCEPT ![c] =
            IF outcome = "fail" THEN Return(call, Thrown)
            ELSE Return(logged, IngestResult(call))]
       /\ IF call.target.kind = "memory"
          THEN /\ memStores' = [memStores EXCEPT ![call.target.id] =
                                  @ \o Added(recs, outcome)]
               /\ UNCHANGED collection
          ELSE /\ collection' = collection \o Added(recs, outcome)
               /\ UNCHANGED memStores
  /\ UNCHANGED <<qdrantUrl, retrievalKCfg, clientBuilds, llm, embeddings, vectorStore, vectorStoreKind,
                 ragQueriesTotal, ragQueriesSuccess, started, wfqVars, fnVars>>

\* ---------------------------------------------------------------- query
Reverse(s) == [i \in 1..Len(s) |-> s[Len(s) + 1 - i]]

RECURSIVE Dedupe(_, _)
\* Array.from(new Set(xs)): the distinct values in order of first appearance
Dedupe(xs, seen) ==
  IF xs = <<>> THEN <<>>
  ELSE IF Head(xs) \in seen THEN Dedupe(Tail(xs), seen)
  ELSE <<Head(xs)>> \o Dedupe(Tail(xs), seen \cup {Head(xs)})

\* .filter(Boolean) on the source values ("" stands for a missing or empty one)
FilterTruthy(xs) == SelectSeq(xs, LAMBDA x : x /= "")

AttributionUncapped(context) == Dedupe(FilterTruthy(context), {})

\* query, lines 535-539
Attribution(context) ==
  LET d == Dedupe(FilterTruthy(context), {}) IN SubSeq(d, 1, Min(Len(d), MaxSources))

TopKAll(recs, k, order) ==
  IF order = "fwd" THEN recs ELSE Reverse(recs)

\* similarity search: the k best records of the store, in an order the
\* embedding decides
TopK(recs, k, order) ==
  LET ranked == IF order = "fwd" THEN recs ELSE Reverse(recs) IN
  SubSeq(ranked, 1, Min(k, Len(ranked)))

NoContextNever(n) == FALSE

\* query: if (contextDocs.length === 0)
NoContext(n) == n = 0

QueryResultFailed(context) ==
  [NoResult EXCEPT !.type = "success", !.success = FALSE, !.answer = "generated",
                   !.sources = Attribution(context), !.contextCount = Len(context)]

\* query, lines 556-561
QueryResult(context) ==
  [NoResult EXCEPT !.type = "success", !.success = TRUE, !.answer = "generated",
                   !.sources = Attribution(context), !.contextCount = Len(context)]

\* query, lines 499-524: retriever.invoke (embedding of the question, then the
\* search of the store the retriever was made on), the counter, the
\* no-context guard
Retrieve(c) ==
  /\ calls[c].pc = "retrieve"
  /\ \E outcome \in {"ok", "fail"}, order \in {"fwd", "rev"} :
       LET call == [calls[c] EXCEPT !.embeds = @ + 1,
                                    !.usedKind = calls[c].target.kind,
                                    !.searched = Len(Contents(calls[c].target))]
           docs == TopK(Contents(call.target), RetrievalK, order)
           context == [i \in 1..Len(docs) |-> docs[i].src]
       IN
       IF outcome = "fail"
       THEN /\ calls' = [calls EXCEPT ![c] = Return(call, Thrown)]
            /\ UNCHANGED ragQueriesTotal
       ELSE /\ ragQueriesTotal' = ragQueriesTotal + 1
            /\ calls' = [calls EXCEPT ![c] =
                 IF NoContext(Len(context))
                 THEN Return([call EXCEPT !.retrieved = Len(context),
                                          !.events = Append(@,
                                            Event("debug", "RAG query: no context",
                                                  vectorStoreKind, "false"))],
                             NoContextResult(vectorStoreKind))
                 ELSE [call EXCEPT !.retrieved = Len(context), !.pc = "generate",
                                   !.context = context]]
  /\ UNCHANGED <<qdrantUrl, retrievalKCfg, clientBuilds, llm, embeddings, vectorStore, vectorStoreKind,
                 ragQueriesSuccess, memStores, collection, started, wfqVars, fnVars>>

CountedAlways(n, outcome) == n + 1

\* query, lines 528-530: this.ragQueriesSuccess += 1 runs when ragChain.invoke
\* has returned, not when it has thrown
Counted(n, outcome) == IF outcome = "ok" THEN n + 1 ELSE n

InvokeTwice(call) == [call EXCEPT !.gens = @ + 2]

\* query, line 528: ragChain.invoke(question), one request to the chat model
Invoke(call) == [call EXCEPT !.gens = @ + 1]

\* query, lines 528-561: ragChain.invoke, the counter, attribution, the log
\* record and the result
Generate(c) ==
  /\ calls[c].pc = "generate"
  /\ \E outcome \in {"ok", "fail"} :
       LET call == Invoke(calls[c]) IN
       /\ ragQueriesSuccess' = Counted(ragQueriesSuccess, outcome)
       /\ IF outcome = "fail"
          THEN calls' = [calls EXCEPT ![c] = Return(call, Thrown)]
          ELSE calls' = [calls EXCEPT ![c] =
                 Return([call EXCEPT !.events = Append(@,
                           Event("log", "RAG query success", vectorStoreKind, "true"))],
                        QueryResult(call.context))]
  /\ UNCHANGED <<qdrantUrl, retrievalKCfg, clientBuilds, llm, embeddings, vectorStore, vectorStoreKind,
                 ragQueriesTotal, memStores, collection, started, wfqVars, fnVars>>

\* ------------------------------------------------------- specification
Next ==
  \E c \in CallIds :
    \/ StartInit(c)
    \/ StartIngest(c)
    \/ StartQuery(c)
    \/ ProbeAttempt(c)
    \/ LoadPdf(c)
    \/ AddDocuments(c)
    \/ Retrieve(c)
    \/ Generate(c)

Spec == Init /\ [][Next]_vars

\* --------------------------------------- waitForQdrant taken on its own
\* waitForQdrant is called (init, line 307): only with a configured endpoint
InitLoop ==
  /\ Init
  /\ Configured(qdrantUrl)

WfqEnter ==
  /\ wfq = NoLoop
  /\ wfq' = LoopStart
  /\ UNCHANGED <<svcVars, wfqResponses, fnVars>>

\* one iteration of its loop
WfqStep ==
  /\ wfq.ret = "pending"
  /\ \E outcome \in ProbeOutcomes :
       /\ wfq' = LoopStep(wfq, outcome)
       /\ wfqResponses' = Append(wfqResponses, outcome)
  /\ UNCHANGED <<svcVars, fnVars>>

NextLoop == WfqEnter \/ WfqStep

SpecLoop == InitLoop /\ [][NextLoop]_vars

\* a probe is answered or times out, a timer fires: the loop always goes on
FairSpecLoop == SpecLoop /\ WF_vars(WfqEnter) /\ WF_vars(WfqStep)

\* the functions taken alone run beside a service that is not configured
InitFn ==
  /\ Init
  /\ qdrantUrl = NoValue
  /\ retrievalKCfg = NoNumber
  /\ collection = <<>>

\* ------------------------------------------------- cleanExtractedText
\* a text is a sequence of characters: the line break, the space (for any
\* other whitespace), digits, letters, the underscore, the punctuation marks
\* of the patterns and the parentheses
Nl == "\n"

\* \s
IsSpace(ch) == ch \in {Nl, " "}

\* \d
IsDigit(ch) == ch \in {"0", "1", "2", "3", "4", "5", "6", "7", "8", "9"}

\* \w
IsWord(ch) == IsDigit(ch) \/ ch \in {"a", "b", "_"}

\* [:\-,.]
IsPunct(ch) == ch \in {":", "-", ",", "."}

\* the character at a place of a text, "" outside of it
At(s, i) == IF i \in 1..Len(s) THEN s[i] ELSE ""

\* the transforms of cleanExtractedText, lines 35-40, in the order applied
Transforms == <<"blank", "lone", "before", "after", "hyphen", "digits">>

\* the length of the match of a transform's pattern that starts at place i of
\* s, 0 when there is none (\s*, greedy, gives the longest run of whitespace
\* that ends in a line break)
MatchLen(t, s, i) ==
  CASE t = "blank" ->
         LET ends == {j \in (i + 1)..Len(s) :
                        s[j] = Nl /\ \A k \in (i + 1)..j : IsSpace(s[k])}
         IN IF At(s, i) = Nl /\ ends /= {}
            THEN (CHOOSE j \in ends : \A e \in ends : e <= j) - i + 1
            ELSE 0
    [] t = "lone" ->
         IF At(s, i) = Nl /\ IsPunct(At(s, i + 1)) /\ At(s, i + 2) = Nl THEN 3 ELSE 0
    [] t = "before" ->
         IF At(s, i) = Nl /\ IsPunct(At(s, i + 1)) THEN 2 ELSE 0
    [] t = "after" ->
         IF IsPunct(At(s, i)) /\ At(s, i + 1) = Nl THEN 2 ELSE 0
    [] t = "hyphen" ->
         IF /\ IsWord(At(s, i)) /\ At(s, i + 1) = "-"
            /\ At(s, i + 2) = " " /\ IsWord(At(s, i + 3))
         THEN 4 ELSE 0
    [] t = "digits" ->
         IF IsDigit(At(s, i)) /\ At(s, i + 1) = Nl /\ IsDigit(At(s, i + 2)) THEN 3 ELSE 0

\* what a transform puts in the place of its match at place i of s
Replacement(t, s, i) ==
  CASE t = "blank" -> <<Nl>>
    [] t = "lone" -> <<s[i + 1], " ">>
    [] t = "before" -> <<s[i + 1]>>
    [] t = "after" -> <<s[i], " ">>
    [] t = "hyphen" -> <<s[i], "-", s[i + 3]>>
    [] t = "digits" -> <<s[i], s[i + 2]>>

RECURSIVE ReplaceAll(_, _, _)
\* String.prototype.replace with a global pattern, from place i on: the
\* matches are taken left to right and a match starts after the one before
ReplaceAll(t, s, i) ==
  IF i > Len(s) THEN <<>>
  ELSE IF MatchLen(t, s, i) > 0
  THEN Replacement(t, s, i) \o ReplaceAll(t, s, i + MatchLen(t, s, i))
  ELSE <<s[i]>> \o ReplaceAll(t, s, i + 1)

RECURSIVE ReplaceInOrder(_, _)
\* the chain of .replace calls, lines 35-40
ReplaceInOrder(ts, s) ==
  IF ts = <<>> THEN s
  ELSE ReplaceInOrder(Tail(ts), ReplaceAll(Head(ts), s, 1))

RECURSIVE SplitLines(_)
\* .split('\n')
SplitLines(s) ==
  IF \A i \in 1..Len(s) : s[i] /= Nl THEN <<s>>
  ELSE LET i == CHOOSE k \in 1..Len(s) : s[k] = Nl /\ \A j \in 1..(k - 1) : s[j] /= Nl
       IN <<SubSeq(s, 1, i - 1)>> \o SplitLines(SubSeq(s, i + 1, Len(s)))

RECURSIVE JoinLines(_)
\* .join('\n')
JoinLines(lines) ==
  IF lines = <<>> THEN <<>>
  ELSE IF Len(lines) = 1 THEN lines[1]
  ELSE lines[1] \o <<Nl>> \o JoinLines(Tail(lines))

\* .map((line) => line.trim())
TrimLines(lines) == [i \in 1..Len(lines) |-> Trim(lines[i])]

\* .filter((line) => line.length > 0)
NonEmptyLines(lines) == SelectSeq(lines, LAMBDA line : Len(line) > 0)

\* cleanExtractedText, lines 33-45
cleanExtractedText(text) ==
  JoinLines(NonEmptyLines(TrimLines(SplitLines(ReplaceInOrder(Transforms, text)))))

\* the characters of the texts given to cleanExtractedText taken alone
CleanChars == {Nl, " ", "1", "a", "-", ":"}

\* cleanExtractedText is called with a text
CleanEnter ==
  /\ clean.pc = "idle"
  /\ \E n \in 0..MaxText : \E text \in [1..n -> CleanChars] :
       clean' = [clean EXCEPT !.pc = "input", !.text = text]
  /\ UNCHANGED <<svcVars, wfqVars, attr, pdf, chunker, inline, ui>>

\* it returns
CleanApply ==
  /\ clean.pc = "input"
  /\ clean' = [clean EXCEPT !.pc = "once", !.out = cleanExtractedText(clean.text)]
  /\ UNCHANGED <<svcVars, wfqVars, attr, pdf, chunker, inline, ui>>

\* it is called with its own output, and returns
CleanAgain ==
  /\ clean.pc = "once"
  /\ clean' = [clean EXCEPT !.pc = "twice", !.again = cleanExtractedText(clean.out)]
  /\ UNCHANGED <<svcVars, wfqVars, attr, pdf, chunker, inline, ui>>

NextClean == CleanEnter \/ CleanApply \/ CleanAgain

SpecClean == InitFn /\ [][NextClean]_vars

\* ------------------------------------------------- loadPdfAsDocuments
\* the raw bytes of a file are a sequence of characters in which the names
\* /AcroForm and /V count as one character each
HasAcroForm(raw) == \E i \in 1..Len(raw) : raw[i] = "/AcroForm"

\* \s* from place i on: the place of the first character that is not
\* whitespace, 0 when there is none
FirstNonSpace(raw, i) ==
  IF \E k \in i..Len(raw) : ~IsSpace(raw[k])
  THEN CHOOSE k \in i..Len(raw) : ~IsSpace(raw[k]) /\ \A j \in i..(k - 1) : IsSpace(raw[j])
  ELSE 0

\* [^)]*\) from place i on: the place of the first closing parenthesis, 0
\* when there is none
FirstClose(raw, i) ==
  IF \E k \in i..Len(raw) : raw[k] = ")"
  THEN CHOOSE k \in i..Len(raw) : raw[k] = ")" /\ \A j \in i..(k - 1) : raw[j] /= ")"
  ELSE 0

\* /\/V\s*\(([^)]*)\)/ at place i of raw: the places of its parentheses,
\* <<0, 0>> when it does not match there
ValueAt(raw, i) ==
  LET open == FirstNonSpace(raw, i + 1)
      close == IF open = 0 THEN 0 ELSE FirstClose(raw, open + 1)
  IN IF At(raw, i) = "/V" /\ open > 0 /\ At(raw, open) = "(" /\ close > 0
     THEN <<open, close>>
     ELSE <<0, 0>>

RECURSIVE MatchAllValues(_, _)
\* raw.matchAll(...).map((m) => m[1].trim()), from place i on
MatchAllValues(raw, i) ==
  IF i > Len(raw) THEN <<>>
  ELSE LET m == ValueAt(raw, i) IN
       IF m[2] > 0
       THEN <<Trim(SubSeq(raw, m[1] + 1, m[2] - 1))>> \o MatchAllValues(raw, m[2] + 1)
       ELSE MatchAllValues(raw, i + 1)

\* extractAcroFormValues, lines 9-14
extractAcroFormValues(raw) == NonEmptyLines(MatchAllValues(raw, 1))

\* (extractedText.match(/_/g) || []).length
UnderscoreCount(text) == Cardinality({i \in 1..Len(text) : text[i] = "_"})

isBlankFormPdfFromTwenty(raw, text) ==
  HasAcroForm(raw) /\ UnderscoreCount(text) >= BlankUnderscores

\* isBlankFormPdf, lines 20-27
isBlankFormPdf(raw, text) ==
  IF ~HasAcroForm(raw) THEN FALSE
  ELSE UnderscoreCount(text) > BlankUnderscores

\* lines 55: docs.map((d) => d.pageContent).join('\n')
BaseText(loaded) == JoinLines(loaded)

FinalTextKeepsDuplicates(raw, baseText) ==
  IF isBlankFormPdf(raw, baseText)
  THEN LET formValues == extractAcroFormValues(raw) IN
       IF Len(formValues) > 0 THEN JoinLines(formValues) ELSE baseText
  ELSE cleanExtractedText(baseText)

\* lines 57-66
FinalText(raw, baseText) ==
  IF isBlankFormPdf(raw, baseText)
  THEN LET formValues == Dedupe(extractAcroFormValues(raw), {}) IN
       IF Len(formValues) > 0 THEN JoinLines(formValues) ELSE baseText
  ELSE cleanExtractedText(baseText)

loadPdfPerPage(path, raw, loaded) ==
  [i \in 1..Len(loaded) |->
     [pageContent |-> FinalText(raw, loaded[i]), source |-> path]]

\* loadPdfAsDocuments, lines 47-74, given the bytes of the file and the
\* documents PDFLoader made of it
loadPdfAsDocuments(path, raw, loaded) ==
  <<[pageContent |-> FinalText(raw, BaseText(loaded)), source |-> path]>>

\* the files given to loadPdfAsDocuments taken alone: a path, whether the
\* file has a form definition, its field entries (each value written as
\* /V, gap, the value in parentheses), its pages (the first one is lead and
\* a number of underscores, every other one a single underscore)
Paths == {"a.pdf", "b.pdf"}

FieldValues == {<<>>, <<" ">>, <<"a">>, <<" ", "b", " ">>}

Gaps == {<<>>, <<" ">>}

Leads == {<<>>, <<" ">>}

Files ==
  [path : Paths, marker : BOOLEAN, gap : Gaps, lead : Leads,
   fields : UNION {[1..n -> FieldValues] : n \in 0..MaxFields},
   pages : 0..MaxPages, underscores : 0..MaxUnderscores]

RECURSIVE FieldEntries(_, _)
\* the field entries as they stand in the file
FieldEntries(fields, gap) ==
  IF fields = <<>> THEN <<>>
  ELSE <<"/V">> \o gap \o <<"(">> \o Head(fields) \o <<")">>
         \o FieldEntries(Tail(fields), gap)

\* readFileSync(filePath, 'latin1')
RawBytes(file) ==
  (IF file.marker THEN <<"/AcroForm">> ELSE <<>>) \o FieldEntries(file.fields, file.gap)

\* loader.load()
LoaderDocs(file) ==
  [i \in 1..file.pages |->
     IF i = 1 THEN file.lead \o Repeat("_", file.underscores) ELSE <<"_">>]

\* loadPdfAsDocuments is called with the path of a readable file
PdfEnter ==
  /\ pdf.pc = "idle"
  /\ \E file \in Files :
       /\ file.pages = 0 => file.underscores = 0 /\ file.lead = <<>>
       /\ pdf' = [pdf EXCEPT !.pc = "input", !.file = file]
  /\ UNCHANGED <<svcVars, wfqVars, attr, clean, chunker, inline, ui>>

\* it returns
PdfLoad ==
  /\ pdf.pc = "input"
  /\ LET raw == RawBytes(pdf.file)
         loaded == LoaderDocs(pdf.file)
     IN pdf' = [pdf EXCEPT !.pc = "done",
                           !.blank = isBlankFormPdf(raw, BaseText(loaded)),
                           !.docs = loadPdfAsDocuments(pdf.file.path, raw, loaded)]
  /\ UNCHANGED <<svcVars, wfqVars, attr, clean, chunker, inline, ui>>

NextPdf == PdfEnter \/ PdfLoad

SpecPdf == InitFn /\ [][NextPdf]_vars

\* ------------------------------------------ the splitter of ingest
\* ingest, line 403: the separators, coarsest first; the empty one is the
\* split between any two characters
separators == << <<Nl, Nl>>, <<Nl>>, <<" ">>, <<>> >>

\* a text is given by the lengths of its words (runs of characters with no
\* separator in them) and by the separators between them

RECURSIVE LenUpTo(_, _)
\* the number of characters of a text up to the end of its i-th word
LenUpTo(t, i) ==
  IF i = 0 THEN 0
  ELSE t.words[i] + (IF i > 1 THEN Len(t.seps[i - 1]) ELSE 0) + LenUpTo(t, i - 1)

\* text.length
TextLen(t) == LenUpTo(t, Len(t.words))

RECURSIVE PiecesAt(_, _)
\* the pieces of a text between the occurrences of a separator
PiecesAt(t, sep) ==
  IF \A i \in 1..Len(t.seps) : t.seps[i] /= sep THEN <<t>>
  ELSE LET i == CHOOSE k \in 1..Len(t.seps) :
                  t.seps[k] = sep /\ \A j \in 1..(k - 1) : t.seps[j] /= sep
       IN <<[words |-> SubSeq(t.words, 1, i), seps |-> SubSeq(t.seps, 1, i - 1)]>>
            \o PiecesAt([words |-> SubSeq(t.words, i + 1, Len(t.words)),
                         seps |-> SubSeq(t.seps, i + 1, Len(t.seps))], sep)

RECURSIVE Windows(_, _)
\* the split of n characters with no separator left: pieces of chunkSize
\* characters, each starting chunkOverlap characters before the end of the
\* one before; the lengths of the pieces from the one that starts at start
Windows(n, start) ==
  IF start + chunkSize >= n THEN <<n - start>>
  ELSE <<chunkSize>> \o Windows(n, start + chunkSize - chunkOverlap)

RECURSIVE SplitText(_, _)
RECURSIVE SplitPieces(_, _)
\* the lengths of the chunks of a text, splitting from separator number
\* level on: a text within the size is one chunk; a longer one is split on
\* the separator and its pieces are split on the next separators
SplitText(t, level) ==
  IF TextLen(t) = 0 THEN <<>>
  ELSE IF TextLen(t) <= chunkSize THEN <<TextLen(t)>>
  ELSE IF separators[level] = <<>> THEN Windows(TextLen(t), 0)
  ELSE SplitPieces(PiecesAt(t, separators[level]), level + 1)

SplitPieces(pieces, level) ==
  IF pieces = <<>> THEN <<>>
  ELSE SplitText(Head(pieces), level) \o SplitPieces(Tail(pieces), level)

\* ingest, lines 400-406: splitter.splitDocuments, for one document; every
\* chunk has the metadata of its document
splitDocuments(doc) ==
  LET lens == SplitText(doc.text, 1) IN
  [i \in 1..Len(lens) |-> [length |-> lens[i], source |-> doc.source]]

\* the documents given to the splitter taken alone
WordLens == {499, 500, 2000}

TextSeps == {<<Nl, Nl>>, <<Nl>>, <<" ">>}

ChunkSources == {"inline", "a.pdf"}

\* ingest, lines 391-399: a document of allDocs reaches the splitter
ChunkerEnter ==
  /\ chunker.pc = "idle"
  /\ \E n \in 0..MaxWords, source \in ChunkSources :
       \E words \in [1..n -> WordLens] :
         \E seps \in [1..(IF n = 0 THEN 0 ELSE n - 1) -> TextSeps] :
           chunker' = [chunker EXCEPT
                         !.pc = "input",
                         !.doc = [source |-> source,
                                  text |-> [words |-> words, seps |-> seps]]]
  /\ UNCHANGED <<svcVars, wfqVars, attr, pdf, clean, inline, ui>>

\* ingest, line 406
ChunkerSplit ==
  /\ chunker.pc = "input"
  /\ chunker' = [chunker EXCEPT !.pc = "done", !.chunks = splitDocuments(chunker.doc)]
  /\ UNCHANGED <<svcVars, wfqVars, attr, pdf, clean, inline, ui>>

NextChunker == ChunkerEnter \/ ChunkerSplit

SpecChunker == InitFn /\ [][NextChunker]_vars

\* ------------------------------ the inline documents of ingest
\* a JavaScript value: a string (a sequence of characters), undefined
\* (NoValue) or null
NullValue == <<"null">>

\* what a key that an object does not have is mapped to
Absent == <<"absent">>

Inline == <<"i", "n", "l", "i", "n", "e">>

\* an object with the keys source and page (each may be absent); kind tells
\* an object from undefined and null
Object(source, page) == [kind |-> "object", source |-> source, page |-> page]

\* obj.source
GetSource(obj) == IF obj.source = Absent THEN NoValue ELSE obj.source

\* meta?.source
OptGetSource(meta) == IF meta.kind = "object" THEN GetSource(meta) ELSE NoValue

\* a ?? b
Nullish(a, b) == IF a = NoValue \/ a = NullValue THEN b ELSE a

\* { ...obj, ...more }: every own key of more, whatever its value, replaces
\* that of obj; undefined and null spread to nothing
Spread(obj, more) ==
  IF more.kind /= "object" THEN obj
  ELSE Object(IF more.source /= Absent THEN more.source ELSE obj.source,
              IF more.page /= Absent THEN more.page ELSE obj.page)

\* ingest, lines 379-382: the document made of one entry of body.docs
textDoc(d) ==
  [pageContent |-> d.content,
   metadata |-> Spread(Object(Nullish(OptGetSource(d.meta), Inline), Absent), d.meta)]

\* ingest, lines 377-383: (body.docs || []).map(...)
textDocs(docs) == [i \in 1..Len(docs) |-> textDoc(docs[i])]

InlineContents == {<<>>, <<"a">>, <<" ", "a", Nl>>}

\* the values of meta a request body can hold: none, null, or an object with
\* or without the keys source and page
Metas ==
  {[kind |-> "undefined", source |-> Absent, page |-> Absent],
   [kind |-> "null", source |-> Absent, page |-> Absent]}
  \cup {Object(source, page) : source \in {Absent, NoValue, NullValue, <<>>, <<"a">>},
                               page \in {Absent, <<"1">>}}

\* ingest is called with body.docs
InlineEnter ==
  /\ inline.pc = "idle"
  /\ \E n \in 0..MaxInline :
       \E docs \in [1..n -> [content : InlineContents, meta : Metas]] :
         inline' = [inline EXCEPT !.pc = "input", !.docs = docs]
  /\ UNCHANGED <<svcVars, wfqVars, attr, pdf, clean, chunker, ui>>

\* ingest, lines 377-383
InlineBuild ==
  /\ inline.pc = "input"
  /\ inline' = [inline EXCEPT !.pc = "done", !.textDocs = textDocs(inline.docs)]
  /\ UNCHANGED <<svcVars, wfqVars, attr, pdf, clean, chunker, ui>>

NextInline == InlineEnter \/ InlineBuild

SpecInline == InitFn /\ [][NextInline]_vars

\* ------------------------------------------------ the chat interface
\* what the user can have typed
UiInputs == {<<>>, <<" ">>, <<"a">>, <<" ", "a", " ">>}

\* the responses of POST /chat/ask: the status is ok or not, the body may
\* hold an answer and a message
Responses ==
  [ok : BOOLEAN, answer : {NoValue, <<>>, <<"generated">>},
   message : {NoValue, <<"Question cannot be empty">>}]

\* api.ts, askQuestion, lines 27-32: the body of an ok response is returned,
\* any other response is thrown as an Error
askQuestion(res) ==
  IF res.ok THEN [thrown |-> FALSE, answer |-> res.answer, message |-> res.message]
  ELSE [thrown |-> TRUE, answer |-> NoValue,
        message |-> IF Truthy(res.message) THEN res.message ELSE <<"Query failed">>]

\* send, lines 38-53: the assistant message of a settled request
AssistantMessage(settled) ==
  [role |-> "assistant",
   content |-> IF settled.thrown THEN <<"Error: ">> \o settled.message
               ELSE IF Truthy(settled.answer) THEN settled.answer
               ELSE IF Truthy(settled.message) THEN settled.message
               ELSE <<"No response.">>]

AcceptsWhileLoading(question, isLoading) == Truthy(question)

\* send, line 24: if (!question || loading) return
Accepts(question, isLoading) == Truthy(question) /\ ~isLoading

\* onChange of the input, line 125: setInput, and the render that follows a
\* user event (it may or may not take in an update of loading that is
\* still waiting to be rendered)
UiType ==
  /\ \E text \in UiInputs, isLoading \in {ui.loading, ui.rLoading} :
       ui' = [ui EXCEPT !.input = text, !.rInput = text, !.rLoading = isLoading]
  /\ UNCHANGED <<svcVars, wfqVars, attr, pdf, clean, chunker, inline>>

\* onSubmit of the form, lines 116-119 and send, lines 22-37: with the input
\* and loading of the last render; an accepted send appends the user message,
\* clears the input, sets loading and calls askQuestion; the render follows
UiSubmit ==
  /\ LET question == Trim(ui.rInput) IN
     IF Accepts(question, ui.rLoading) /\ ui.sends < MaxSends
     THEN ui' = [ui EXCEPT !.messages = Append(@, [role |-> "user", content |-> question]),
                           !.input = <<>>, !.loading = TRUE,
                           !.rInput = <<>>, !.rLoading = TRUE,
                           !.requests = Append(@, [question |-> question, settled |-> FALSE,
                                                    thrown |-> FALSE, answer |-> NoValue,
                                                    message |-> NoValue]),
                           !.sends = @ + 1]
     ELSE /\ ~Accepts(question, ui.rLoading)
          /\ UNCHANGED ui
  /\ UNCHANGED <<svcVars, wfqVars, attr, pdf, clean, chunker, inline>>

\* the response of a request arrives (or the request fails): the promise of
\* askQuestion settles
UiRespond ==
  /\ \E i \in 1..Len(ui.requests), res \in Responses :
       /\ ~ui.requests[i].settled
       /\ LET outcome == askQuestion(res) IN
          ui' = [ui EXCEPT !.requests[i] =
                   [question |-> ui.requests[i].question, settled |-> TRUE,
                    thrown |-> outcome.thrown, answer |-> outcome.answer,
                    message |-> outcome.message]]
  /\ UNCHANGED <<svcVars, wfqVars, attr, pdf, clean, chunker, inline>>

\* a sequence without its i-th element
Without(seq, i) == SubSeq(seq, 1, i - 1) \o SubSeq(seq, i + 1, Len(seq))

\* send, lines 37-57: after the await, the assistant message and
\* setLoading(false); the render comes later
UiSettle ==
  /\ \E i \in 1..Len(ui.requests) :
       /\ ui.requests[i].settled
       /\ ui' = [ui EXCEPT !.messages = Append(@, AssistantMessage(ui.requests[i])),
                            !.loading = FALSE,
                            !.requests = Without(@, i)]
  /\ UNCHANGED <<svcVars, wfqVars, attr, pdf, clean, chunker, inline>>

\* the render of the updates made outside a user event
UiRender ==
  /\ ui.rLoading /= ui.loading
  /\ ui' = [ui EXCEPT !.rLoading = ui.loading]
  /\ UNCHANGED <<svcVars, wfqVars, attr, pdf, clean, chunker, inline>>

NextUi == UiType \/ UiSubmit \/ UiRespond \/ UiSettle \/ UiRender

SpecUi == InitFn /\ [][NextUi]_vars

\* the continuation of an await runs once its promise has settled, and a
\* scheduled render is carried out
FairSpecUi == SpecUi /\ WF_vars(UiSettle) /\ WF_vars(UiRender)

\* ------------------------------ the source attribution taken on its own
\* the source values met in a context, missing ones apart
Distinct(context) == {context[i] : i \in 1..Len(context)} \ {""}

\* the number of records of a context that bring no new source
Repeats(context) == Len(context) - Cardinality(Distinct(context))

\* the source values the next retrieved record can carry: a path not met yet
\* or, up to MaxRepeats times, a missing one, the first or the latest one
NextSources(context) ==
  {ToString(Cardinality(Distinct(context)) + 1)}
    \cup (IF Repeats(context) < MaxRepeats
          THEN {"", ToString(1), ToString(Cardinality(Distinct(context)))}
                 \ {ToString(0)}
          ELSE {})

\* query, line 537: contextDocs.map((d) => d.metadata?.source), one record
\* of the retrieval at a time
AttrRetrieved ==
  /\ attr.pc \in {"idle", "input"}
  /\ Len(attr.context) < MaxContext
  /\ \E src \in NextSources(attr.context) :
       attr' = [attr EXCEPT !.pc = "input", !.context = Append(@, src)]
  /\ UNCHANGED <<svcVars, wfqVars, pdf, clean, chunker, inline, ui>>

\* query, lines 535-539, on a context that is not empty (line 506)
AttrApply ==
  /\ attr.pc = "input"
  /\ attr' = [attr EXCEPT !.pc = "done", !.sources = Attribution(attr.context)]
  /\ UNCHANGED <<svcVars, wfqVars, pdf, clean, chunker, inline, ui>>

NextAttr == AttrRetrieved \/ AttrApply

SpecAttr == InitFn /\ [][NextAttr]_vars

TypeOK ==
  /\ started \in 0..NumCalls
  /\ vectorStoreKind \in {"memory", "qdrant"}
  /\ \A c \in CallIds : calls[c].pc \in {"idle", "probe", "load", "add", "retrieve",
                                         "generate", "done"}

\* ================================================================ claims
\* the calls that are HTTP requests
Requests == {c \in CallIds : calls[c].op \in {"ingest", "query"}}

\* the calls that are past ensureInit (or init) and not yet returned
InBody(c) == calls[c].pc \in {"load", "add", "retrieve", "generate"}

Returned(c) == calls[c].pc = "done"

\* the number of requests that ran the body of init
InitRuns == Cardinality({c \in Requests : calls[c].ranInit})

\* the number of records of a store that a call added
CountBy(recs, c) == Cardinality({i \in 1..Len(recs) : recs[i].by = c})

\* the setting is absent, empty or whitespace-only
Unconfigured == qdrantUrl = NoValue \/ \A i \in 1..Len(qdrantUrl) : qdrantUrl[i] = " "

\* init of call c, which had to probe, ends in this step
InitEnds(c) == calls[c].pc = "probe" /\ calls'[c].pc /= "probe"

FallbackLogs == {"client_failed", "probe_failed"}

\* C1: initialization is single-flight: whatever the interleaving of the
\* ingest and query calls that start before initialization has completed, the
\* body of init runs at most once, and no call is in its body with a store,
\* an embeddings client or a generation client that is not set.
C1_SingleFlight ==
  /\ InitRuns <= 1
  /\ \A c \in Requests :
       InBody(c) => vectorStore /= NoStore /\ llm /\ embeddings

\* C2: every record added by an ingest call that returned success:true is in
\* the store that the service uses now (the active store is never replaced by
\* a fresh empty one).
C2_IngestedRecordsStay ==
  \A c \in Requests :
    calls[c].op = "ingest" /\ calls[c].result.type = "success"
      => CountBy(Contents(vectorStore), c) = calls[c].result.chunksAdded

\* C3: Ready is terminal: once a backend is selected its kind never changes,
\* and a call that starts after that sends no probe.
C3_ReadyIsTerminal ==
  [][vectorStore /= NoStore =>
       /\ vectorStore'.kind = vectorStore.kind
       /\ vectorStoreKind' = vectorStoreKind
       /\ \A c \in CallIds :
            calls[c].pc = "idle" => calls'[c].pc /= "probe" /\ ~calls'[c].probed]_vars

\* C4: with a configured endpoint, an initialization that probed ends either
\* with the persistent store selected (a probe got an OK response and the
\* client was built) or, when the client cannot be built or all maxAttempts
\* probes failed, with the in-memory store selected and the reason logged;
\* in the fallback case the call that ran the initialization is not failed
\* and goes on against the in-memory store.
C4_ConfiguredInitOutcome ==
  [][\A c \in CallIds :
       InitEnds(c) =>
         LET after == calls'[c] IN
         /\ ~Unconfigured
         /\ ~after.probeOk => calls[c].loop.attempt = maxAttempts
         /\ after.probeOk /\ clientBuilds =>
              /\ vectorStore' = QdrantStore
              /\ vectorStoreKind' = "qdrant"
              /\ after.initLog = "qdrant"
         /\ ~(after.probeOk /\ clientBuilds) =>
              /\ after.initLog = (IF after.probeOk THEN "client_failed" ELSE "probe_failed")
              /\ vectorStore' = MemoryStore(c)
              /\ vectorStoreKind' = "memory"
              /\ after.result.type /= "error"
              /\ after.pc \in {"add", "retrieve"} => after.target = vectorStore'
              /\ after.pc \in {"load", "add", "retrieve", "done"}]_vars

C4_Witness ==
  \E c \in CallIds :
    /\ calls[c].op = "query"
    /\ calls[c].initLog = "probe_failed"
    /\ calls[c].pc = "retrieve"
    /\ calls[c].target = MemoryStore(c)
    /\ vectorStore = MemoryStore(c)
    /\ vectorStoreKind = "memory"

\* C5: with no endpoint configured (absent, empty or whitespace-only),
\* initialization selects the in-memory store at once and no probe is ever
\* sent.
C5_UnconfiguredNoProbe ==
  Unconfigured =>
    \A c \in CallIds :
      /\ ~calls[c].probed
      /\ calls[c].pc /= "probe"
      /\ calls[c].ranInit => calls[c].initLog = "memory"
      /\ calls[c].pc /= "idle" => vectorStore.kind = "memory" /\ vectorStoreKind = "memory"

C5_Witness ==
  /\ qdrantUrl = <<" ">>
  /\ \E c \in CallIds :
       calls[c].ranInit /\ calls[c].initLog = "memory" /\ Returned(c)
  /\ vectorStore.kind = "memory"

\* the responses of the probes so far that were not OK
FailedResponses == {i \in 1..Len(wfqResponses) : wfqResponses[i] /= "ok"}

\* C6: the probe loop terminates: it sends at most maxAttempts probes, stops
\* with true at the first OK response, stops with false after the last failed
\* attempt, and waits only between attempts (never after the last one); a
\* non-OK response, a network error and a timeout are all failed attempts.
C6_ProbeLoop ==
  /\ [](/\ wfq.probes = Len(wfqResponses)
        /\ wfq.probes <= maxAttempts
        /\ \A i \in 1..(Len(wfqResponses) - 1) : i \in FailedResponses
        /\ wfq.ret = "true" <=>
             (wfqResponses /= <<>> /\ wfqResponses[Len(wfqResponses)] = "ok")
        /\ wfq.ret = "false" <=>
             (Len(wfqResponses) = maxAttempts /\ Cardinality(FailedResponses) = maxAttempts)
        /\ wfq.waits = Min(Cardinality(FailedResponses), maxAttempts - 1)
        /\ wfq.waits <= maxAttempts - 1)
  /\ <>(wfq.ret \in {"true", "false"})

C6_Witness ==
  /\ wfq.ret = "false"
  /\ wfq.probes = maxAttempts
  /\ wfq.waits = maxAttempts - 1
  /\ \E i, j, k \in 1..Len(wfqResponses) :
       /\ wfqResponses[i] = "notok"
       /\ wfqResponses[j] = "throw"
       /\ wfqResponses[k] = "timeout"

\* the question is missing, empty or whitespace-only
BlankQuestion(q) == q = NoValue \/ \A i \in 1..Len(q) : q[i] = " "

\* the call has read its input
HasInput(c) == InBody(c) \/ Returned(c)

\* C7: for every empty, missing or whitespace-only question, query returns
\* the validation failure (success:false, empty answer, empty sources) and
\* makes no embedding request, no store query and no generation request.
C7_BlankQuestionRejected ==
  \A c \in CallIds :
    calls[c].op = "query" /\ HasInput(c) /\ BlankQuestion(calls[c].question) =>
      /\ Returned(c)
      /\ calls[c].result.type = "validation"
      /\ calls[c].result.success = FALSE
      /\ calls[c].result.answer = ""
      /\ calls[c].result.sources = <<>>
      /\ calls[c].embeds = 0
      /\ calls[c].retrieved = -1
      /\ calls[c].gens = 0

C7_Witness ==
  \E c \in CallIds :
    /\ calls[c].op = "query"
    /\ Returned(c)
    /\ calls[c].question = <<" ">>
    /\ calls[c].result.type = "validation"

\* C8: a call that ends in a validation failure (empty question, no documents
\* supplied) has reached no external service: it sent no probe, read no file,
\* made no embedding and no generation request, whatever the initialization
\* state when it started.
C8_ValidationFailureIsLocal ==
  \A c \in CallIds :
    Returned(c) /\ calls[c].result.type \in {"validation", "empty"} =>
      /\ ~calls[c].probed
      /\ calls[c].reads = 0
      /\ calls[c].embeds = 0
      /\ calls[c].gens = 0

\* C9: whenever the retrieval of a valid question returns zero records, query
\* returns the no-context result (success:false, the guidance message, no
\* sources, contextCount 0) and makes no generation request; and only then.
C9_EmptyRetrievalNoContext ==
  \A c \in CallIds :
    /\ calls[c].retrieved = 0 =>
         /\ Returned(c)
         /\ ~BlankQuestion(calls[c].question)
         /\ calls[c].result.type = "nocontext"
         /\ calls[c].result.success = FALSE
         /\ calls[c].result.answer = "guidance"
         /\ calls[c].result.sources = <<>>
         /\ calls[c].result.contextCount = 0
         /\ calls[c].gens = 0
    /\ calls[c].result.type = "nocontext" => calls[c].retrieved = 0
    /\ calls[c].gens > 0 \/ calls[c].pc = "generate" => calls[c].retrieved > 0

C9_Witness ==
  \E c \in CallIds :
    /\ calls[c].retrieved = 0
    /\ calls[c].result.type = "nocontext"
    /\ calls[c].question = <<"a">>
    /\ calls[c].gens = 0

\* a query call that returned a result for a valid question
Answered(c) ==
  /\ calls[c].op = "query"
  /\ Returned(c)
  /\ ~BlankQuestion(calls[c].question)
  /\ calls[c].result.type /= "error"

IsNoContext(r) ==
  /\ r.type = "nocontext"
  /\ r.success = FALSE
  /\ r.contextCount = 0
  /\ r.sources = <<>>
  /\ r.answer = "guidance"

\* C10, as stated: if no ingest call had succeeded when a valid question was
\* asked, the query returns the no-context response.
C10_AskedBeforeIngest ==
  \A c \in CallIds :
    Answered(c) /\ ~calls[c].ingestedAtStart => IsNoContext(calls[c].result)

\* some ingest call has got as far as the add to the store (or a persistent
\* collection holds records of an earlier process)
SomeIngestReachedStore ==
  \/ \E c \in CallIds :
       calls[c].op = "ingest" /\ (calls[c].pc = "add" \/ calls[c].embeds > 0)
  \/ \E i \in 1..Len(collection) : collection[i].by = 0

\* C10, amended: if no ingest call has got as far as its add to the store by
\* the time the retrieval of a valid question completes, the query (unless it
\* fails) returns the no-context response, with either backend.
C10_RetrievedBeforeIngest ==
  \A c \in CallIds :
    /\ Answered(c) /\ ~SomeIngestReachedStore => IsNoContext(calls[c].result)
    /\ calls[c].pc = "generate" => SomeIngestReachedStore

C10_Witness ==
  \E c \in CallIds :
    /\ Answered(c)
    /\ ~SomeIngestReachedStore
    /\ IsNoContext(calls[c].result)
    /\ calls[c].result.note = "qdrant"
    /\ vectorStore = QdrantStore

\* the k that is configured: RAG_RETRIEVAL_K, or 8 when it is not set
ConfiguredK == IF retrievalKCfg \in Nat THEN retrievalKCfg ELSE 8

FirstAt(context, src) ==
  CHOOSE i \in 1..Len(context) :
    context[i] = src /\ \A j \in 1..(i - 1) : context[j] /= src

\* the sources of a context that appear no later than a source does
RankOf(context, src) ==
  Cardinality({x \in Distinct(context) : FirstAt(context, x) <= FirstAt(context, src)})

\* C12: the sources list holds only non-empty source values of the retrieved
\* records, has no duplicates, is in order of first appearance in the
\* ranking, and holds the first 10 distinct ones (so at most 10).
C12_Attribution ==
  attr.pc = "done" =>
    LET context == attr.context
        sources == attr.sources
    IN
    /\ \A i \in 1..Len(sources) : sources[i] \in Distinct(context)
    /\ \A i, j \in 1..Len(sources) : i /= j => sources[i] /= sources[j]
    /\ \A i, j \in 1..Len(sources) :
         i < j => FirstAt(context, sources[i]) < FirstAt(context, sources[j])
    /\ Len(sources) <= 10
    /\ \A x \in Distinct(context) :
         RankOf(context, x) <= 10 <=> \E i \in 1..Len(sources) : sources[i] = x

C12_Witness ==
  /\ attr.pc = "done"
  /\ Cardinality(Distinct(attr.context)) > 10
  /\ Len(attr.sources) = 10
  /\ \E i \in 1..10 : attr.context[i] = ""
  /\ \E i \in 1..10 : attr.context[i] /= "" /\ FirstAt(attr.context, attr.context[i]) < i

\* the number of records, in any store, that a call added
AddedBy(c) ==
  CountBy(collection, c)
    + Cardinality({<<m, i>> \in CallIds \X (1..(NumCalls * (MaxDocs + MaxPdfs) * MaxChunks)) :
                     i <= Len(memStores[m]) /\ memStores[m][i].by = c})

\* C13: an ingest call with no inline document and no file path returns the
\* empty-ingest result (success:false, chunksAdded 0) and adds nothing to any
\* store; an ingest call with at least one inline document or file path
\* never returns the empty-ingest result.
C13_EmptyIngest ==
  \A c \in CallIds :
    calls[c].op = "ingest" /\ HasInput(c) =>
      IF calls[c].docs = 0 /\ calls[c].pdfs = 0
      THEN /\ Returned(c)
           /\ calls[c].result.type = "empty"
           /\ calls[c].result.success = FALSE
           /\ calls[c].result.chunksAdded = 0
           /\ calls[c].embeds = 0
           /\ AddedBy(c) = 0
      ELSE calls[c].result.type /= "empty"

C13_Witness ==
  \E c, d \in CallIds :
    /\ calls[c].op = "ingest" /\ calls[c].docs = 0 /\ calls[c].pdfs = 0
    /\ calls[c].result.type = "empty"
    /\ calls[d].op = "ingest" /\ calls[d].docs = 0 /\ calls[d].pdfs > 0
    /\ calls[d].result.type = "success" /\ calls[d].result.chunksAdded = 0

RECURSIVE SumChunksAdded(_)
\* the sum of chunksAdded over the ingest calls of a set that returned success
SumChunksAdded(cs) ==
  IF cs = {} THEN 0
  ELSE LET c == CHOOSE x \in cs : TRUE
           n == IF calls[c].op = "ingest" /\ calls[c].result.type = "success"
                THEN calls[c].result.chunksAdded ELSE 0
       IN n + SumChunksAdded(cs \ {c})

\* the records of the active store that were added since the service started
AddedSinceStart ==
  Cardinality({i \in 1..Len(Contents(vectorStore)) : Contents(vectorStore)[i].by /= 0})

\* C15: ingestion is append-only: after any sequence of ingest and query
\* calls the number of records added to the active store is the sum of
\* chunksAdded over the ingest calls that returned success.
C15_AppendOnly == AddedSinceStart = SumChunksAdded(CallIds)

\* C19: the cleaned text contains no digit immediately followed by a line
\* break and another digit.
C19_NoSplitNumber ==
  clean.pc \in {"once", "twice"} =>
    \A i \in 1..Len(clean.out) :
      ~(IsDigit(At(clean.out, i)) /\ At(clean.out, i + 1) = Nl
          /\ IsDigit(At(clean.out, i + 2)))

\* the text has no empty line and no line that starts or ends with whitespace
IsNormalForm(s) ==
  s /= <<>> =>
    \A k \in 1..Len(SplitLines(s)) :
      LET line == SplitLines(s)[k] IN
      /\ line /= <<>>
      /\ ~IsSpace(line[1])
      /\ ~IsSpace(line[Len(line)])

\* C20: the output of the cleanup has no empty line and no line with leading
\* or trailing whitespace, and the cleanup applied to its own output returns
\* that output unchanged.
C20_IdempotentNormalForm ==
  /\ clean.pc \in {"once", "twice"} => IsNormalForm(clean.out)
  /\ clean.pc = "twice" => clean.again = clean.out

\* the number of underscores in the text extracted from a file
Underscores(file) ==
  IF file.pages = 0 THEN 0 ELSE file.underscores + (file.pages - 1)

\* the text extracted from a file
Extracted(file) == JoinLines(LoaderDocs(file))

\* C16: a file is classified as a blank fillable form if and only if its raw
\* bytes contain /AcroForm and the extracted text has strictly more than 20
\* underscores; otherwise (exactly 20 underscores, or no marker) the cleanup
\* pipeline is applied to the extracted text.
C16_BlankFormDetection ==
  pdf.pc = "done" =>
    /\ pdf.blank <=> (pdf.file.marker /\ Underscores(pdf.file) > 20)
    /\ ~pdf.blank =>
         /\ IsNormalForm(pdf.docs[1].pageContent)
         /\ pdf.docs[1].pageContent = cleanExtractedText(Extracted(pdf.file))

C16_Witness ==
  /\ pdf.pc = "done"
  /\ pdf.file.marker
  /\ Underscores(pdf.file) = 20
  /\ ~pdf.blank
  /\ pdf.docs[1].pageContent /= Extracted(pdf.file)

\* the field values of a file, trimmed, the empty ones apart
Values(file) == {Trim(file.fields[i]) : i \in 1..Len(file.fields)} \ {<<>>}

\* the place of the first field of a file whose trimmed value is v
FirstField(file, v) ==
  CHOOSE i \in 1..Len(file.fields) :
    Trim(file.fields[i]) = v /\ \A j \in 1..(i - 1) : Trim(file.fields[j]) /= v

\* C17: for a blank form the normalized text is the newline-joined list of
\* the non-empty trimmed field values of the raw bytes, without duplicates,
\* in first-seen order; with no non-empty value it is the extracted text,
\* not cleaned.
C17_FormValues ==
  pdf.pc = "done" /\ pdf.blank =>
    LET text == pdf.docs[1].pageContent
        lines == SplitLines(text)
    IN
    IF Values(pdf.file) = {} THEN text = Extracted(pdf.file)
    ELSE /\ \A k \in 1..Len(lines) : lines[k] \in Values(pdf.file)
         /\ \A v \in Values(pdf.file) : \E k \in 1..Len(lines) : lines[k] = v
         /\ \A k, l \in 1..Len(lines) :
              k < l => FirstField(pdf.file, lines[k]) < FirstField(pdf.file, lines[l])

C17_Witness ==
  /\ pdf.pc = "done"
  /\ pdf.blank
  /\ pdf.file.fields = << <<" ", "b", " ">>, <<"a">> >>
  /\ pdf.docs[1].pageContent = <<"b", Nl, "a">>

\* C18: for every readable file, whatever its page count and whichever
\* branch is taken, the normalizer returns exactly one document, whose source
\* is the input path.
C18_OneDocument ==
  pdf.pc = "done" =>
    /\ Len(pdf.docs) = 1
    /\ pdf.docs[1].source = pdf.file.path

C18_Witness ==
  /\ pdf.pc = "done"
  /\ pdf.file.pages = MaxPages
  /\ pdf.file.path = "b.pdf"
  /\ Len(pdf.docs) = 1
  /\ pdf.docs[1].source = "b.pdf"

Finished(c) == calls[c].op \in {"ingest", "query"} /\ calls[c].pc = "done"

\* C22: every ingest call and every query call that has ended, whatever its
\* outcome, has written exactly one event record, and the record carries a
\* backend name and a success flag.
C22_OneEventPerCall ==
  \A c \in CallIds :
    Finished(c) =>
      /\ Len(calls[c].events) = 1
      /\ calls[c].events[1].storage \in {"qdrant", "memory"}
      /\ calls[c].events[1].success \in {"true", "false"}

Queries == {c \in CallIds : calls[c].op = "query"}

\* C23 as stated: the generation model is invoked once in a query that
\* returns success:true and not at all in any other query.
C23_GenerationOnlyInSuccess ==
  \A c \in Queries :
    Returned(c) =>
      calls[c].gens = (IF calls[c].result.type = "success" THEN 1 ELSE 0)

\* C23: a query validates, then retrieves (one embedding request and one
\* search), then generates, then attributes: it retrieves only a question that
\* passed validation, generates only after its retrieval has completed with
\* context, and has sources only after its generation; the generation model
\* is invoked once in a query that returns success:true, never in one that
\* returns success:false, and at most once in one that fails (once when it is
\* the generation request that failed).
C23_QueryOrder ==
  \A c \in Queries :
    /\ calls[c].embeds \in 0..1
    /\ calls[c].gens \in 0..1
    /\ calls[c].embeds = 1 => ~IsBlank(AskQuestion(calls[c].question))
    /\ calls[c].retrieved >= 0 => calls[c].embeds = 1 /\ calls[c].searched >= calls[c].retrieved
    /\ calls[c].pc = "generate" \/ calls[c].gens = 1 => calls[c].retrieved >= 1
    /\ calls[c].pc = "generate" => calls[c].gens = 0
    /\ calls[c].result.sources /= <<>> => calls[c].gens = 1
    /\ Returned(c) =>
         /\ calls[c].result.type = "success" => calls[c].gens = 1
         /\ calls[c].result.type \in {"validation", "nocontext"} => calls[c].gens = 0
         /\ calls[c].result.type = "error" /\ calls[c].retrieved >= 1 => calls[c].gens = 1
         /\ calls[c].result.type = "error" /\ calls[c].retrieved < 1 => calls[c].gens = 0

C23_Witness ==
  \E c, d \in Queries :
    /\ Returned(c) /\ calls[c].result.type = "error"
    /\ calls[c].retrieved = 1 /\ calls[c].gens = 1
    /\ Returned(d) /\ calls[d].result.type = "success"
    /\ calls[d].gens = 1 /\ calls[d].result.sources /= <<>>

\* the caller supplied a source identifier: a string that is not empty
SuppliedSource(meta) ==
  /\ meta.kind = "object"
  /\ meta.source \notin {Absent, NoValue, NullValue, <<>>}

\* C24: every document built from an inline input has the inline text as its
\* content, unchanged, and as its source the identifier the caller supplied,
\* or "inline" when the caller supplied none (no meta, no source key, or a
\* source that is null, undefined or empty).
C24_InlineSource ==
  inline.pc = "done" =>
    /\ Len(inline.textDocs) = Len(inline.docs)
    /\ \A i \in 1..Len(inline.docs) :
         /\ inline.textDocs[i].pageContent = inline.docs[i].content
         /\ inline.textDocs[i].metadata.source =
              (IF SuppliedSource(inline.docs[i].meta)
               THEN inline.docs[i].meta.source ELSE Inline)

\* the ingest call c fails in this step: a file read, the embedding or the
\* add to the store is rejected
IngestFails(c) ==
  /\ calls[c].op = "ingest"
  /\ calls[c].pc \in {"load", "add"}
  /\ calls'[c].result.type = "error"

\* C25: when a file read of an ingest call fails, or its embedding or its add
\* to the store, the call fails as a whole (it makes no further request),
\* no record of its batch is in any store, the store selection and the
\* contents of every store are as they were, and the service stays ready to
\* serve the calls that follow.
C25_FailureAtomic ==
  [][\A c \in CallIds :
       IngestFails(c) =>
         /\ calls'[c].pc = "done"
         /\ AddedBy(c) = 0
         /\ UNCHANGED <<vectorStore, vectorStoreKind, memStores, collection>>
         /\ vectorStore /= NoStore /\ llm /\ embeddings
         /\ calls'[c].events = <<>>
         /\ calls'[c].reads <= calls[c].pdfs]_vars

C25_Witness ==
  \E c, d \in CallIds :
    /\ c < d
    /\ calls[c].op = "ingest" /\ calls[c].result.type = "error"
    /\ calls[c].embeds = 1 /\ calls[c].docs = 1
    /\ AddedBy(c) = 0
    /\ ~calls[d].ranInit
    /\ calls[d].op = "ingest" /\ calls[d].result.type = "success"
    /\ calls[d].result.chunksAdded = 1 /\ AddedBy(d) = 1

\* C26: once a store is set, vectorStoreKind is 'qdrant' exactly when the
\* active store is the persistent one and 'memory' exactly when it is an
\* in-process one; every event record of a call names the backend of the
\* store the call added to or searched, and so does the note of a no-context
\* result.
C26_KindMatchesStore ==
  /\ vectorStore /= NoStore => vectorStoreKind = vectorStore.kind
  /\ \A c \in CallIds :
       /\ \A i \in 1..Len(calls[c].events) :
            calls[c].events[i].storage = calls[c].usedKind
       /\ calls[c].result.type = "nocontext" =>
            calls[c].result.note =
              (IF calls[c].usedKind = "memory" THEN "in-memory" ELSE "qdrant")

\* the part of C26 about the state of the service alone
C26_ActiveKind == vectorStore /= NoStore => vectorStoreKind = vectorStore.kind

\* the queries whose retrieval has completed
RetrievalCompleted == {c \in Queries : calls[c].retrieved >= 0}

\* the queries whose generation has completed
GenerationCompleted == {c \in Queries : calls[c].result.type = "success"}

\* C27: ragQueriesSuccess <= ragQueriesTotal; ragQueriesTotal is the number
\* of queries whose retrieval has completed and ragQueriesSuccess the number
\* whose generation has completed; a query rejected by validation, or one
\* that fails before its retrieval completes, is in neither.
C27_Counters ==
  /\ ragQueriesSuccess <= ragQueriesTotal
  /\ ragQueriesTotal = Cardinality(RetrievalCompleted)
  /\ ragQueriesSuccess = Cardinality(GenerationCompleted)
  /\ GenerationCompleted \subseteq RetrievalCompleted
  /\ \A c \in Queries :
       calls[c].result.type = "validation"
         \/ (calls[c].result.type = "error" /\ calls[c].gens = 0)
         => c \notin RetrievalCompleted

C27_Witness ==
  /\ ragQueriesTotal = 2
  /\ ragQueriesSuccess = 1
  /\ \E c \in Queries :
       calls[c].result.type = "error" /\ calls[c].gens = 1 /\ calls[c].retrieved = 1

\* C28: when ensureInit has returned to an ingest or query call, the store,
\* the embeddings client and the generation client are set, and the store
\* object the call adds to or searches is a store: on every branch of init
\* and when several calls run init at once.
C28_StoreSet ==
  \A c \in Requests :
    /\ InBody(c) \/ calls[c].usedKind /= "none" \/ calls[c].result.type \notin {"none", "error"}
         => vectorStore /= NoStore /\ llm /\ embeddings
    /\ calls[c].pc \in {"add", "retrieve"} => calls[c].target.kind \in {"qdrant", "memory"}
    /\ calls[c].embeds > 0 => calls[c].usedKind \in {"qdrant", "memory"}
    /\ calls[c].ranInit /\ (InBody(c) \/ Returned(c)) => calls[c].initLog /= "none"

C28_Witness ==
  \E c, d \in Requests :
    /\ calls[c].ranInit /\ calls[d].ranInit
    /\ calls[c].initLog = "probe_failed" /\ calls[d].initLog = "client_failed"
    /\ calls[c].usedKind = "memory" /\ calls[d].usedKind = "memory"

\* the results a query returns (a thrown error is not a result)
QueryResults ==
  {calls[c].result : c \in {q \in Queries : calls[q].result.type \in
                                              {"validation", "nocontext", "success"}}}

\* C29: in every query result success is true exactly when contextCount is
\* at least 1 (the validation result has no contextCount); a success result
\* has at most min(contextCount, 10) sources and a contextCount of at most k;
\* a result with success false has no sources.
C29_ResultShape ==
  \A r \in QueryResults :
    /\ r.success <=> r.contextCount >= 1
    /\ r.success =>
         /\ Len(r.sources) <= Min(r.contextCount, MaxSources)
         /\ r.contextCount <= RetrievalK
    /\ ~r.success => r.sources = <<>>

C29_Witness ==
  \E r \in QueryResults :
    /\ r.success /\ r.contextCount = 2 /\ Len(r.sources) = 1
    /\ RetrievalK = DefaultRetrievalK

\* the request in flight has settled and its continuation has yet to run
RequestSettled == \E i \in 1..Len(ui.requests) : ui.requests[i].settled

\* at most one request is in flight, loading is true exactly while one is,
\* and the messages alternate, user first: one user message for each send
\* accepted, one assistant message for each request that has settled
C30_OneInFlight ==
  /\ Len(ui.requests) <= 1
  /\ ui.loading <=> ui.requests /= <<>>
  /\ Len(ui.messages) = 2 * ui.sends - Len(ui.requests)
  /\ \A i \in 1..Len(ui.messages) :
       ui.messages[i].role = (IF i % 2 = 1 THEN "user" ELSE "assistant")

\* a send is accepted only with a non-empty trimmed input and no request in
\* flight, and appends one user message; the continuation of a settled
\* request appends one assistant message and leaves loading false
C30_Step ==
  /\ ui'.sends > ui.sends =>
       /\ Truthy(Trim(ui.input)) /\ ~ui.loading /\ ui.requests = <<>>
       /\ ui'.messages = Append(ui.messages, [role |-> "user", content |-> Trim(ui.input)])
       /\ Len(ui'.requests) = 1
  /\ Len(ui'.requests) < Len(ui.requests) =>
       /\ RequestSettled
       /\ Len(ui'.messages) = Len(ui.messages) + 1
       /\ ui'.messages[Len(ui'.messages)].role = "assistant"
       /\ ~ui'.loading
  /\ ui'.sends = ui.sends /\ Len(ui'.requests) = Len(ui.requests) =>
       ui'.messages = ui.messages /\ ui'.loading = ui.loading

\* C30: in the chat interface a send is accepted only when the trimmed input
\* is not empty and no request is in flight; each accepted send appends one
\* user message and, when its request settles, one assistant message, with
\* loading false after it; so at most one request is in flight, the messages
\* alternate user then assistant, and once the request has settled loading
\* becomes false.
C30_Send ==
  /\ []C30_OneInFlight
  /\ [][C30_Step]_vars
  /\ (RequestSettled ~> ~ui.loading)

C30_Witness ==
  /\ ui.sends = 2 /\ ~ui.loading /\ Len(ui.messages) = 4
  /\ ui.messages[2].content = <<"Error: ", "Query failed">>
  /\ ui.messages[4].content = <<"generated">>
  /\ Trim(ui.rInput) /= <<>> /\ Trim(ui.input) /= <<>>

====
